---- MODULE Spec2Model ----
(***************************************************************************)
(* Orography Factor Playground.                                            *)
(*                                                                         *)
(* The repository holds two pages that compute the orography factor:       *)
(*   - the form application (src/unnamed/part_000): one submit handler     *)
(*     runs run(), which resolves the origin, builds nine sample points,   *)
(*     issues ONE batched elevation request and displays c0, Ac, Am;       *)
(*   - the map application (src/script.js): applyResolvedCoordinates       *)
(*     issues nine single-point elevation requests, every response writes  *)
(*     one DOM slot and calls calculateTotalElevation, which reads all     *)
(*     nine slots back from the DOM.                                       *)
(* The variable app says which page is loaded; each page has its own       *)
(* state and its own actions.                                              *)
(*                                                                         *)
(* Numbers.  TLA+ has integers only, so quantities are scaled:             *)
(*   elevations           whole metres (the values drawn are integers)     *)
(*   Am                   tenths of a metre   (Am10 = 10 * Am, exact)      *)
(*   attenuation          1e-4                (table of exp, 4 decimals)   *)
(*   factor c0            1e-8                (exact given the table)      *)
(*   angles               whole degrees, on the grid of multiples of 90    *)
(*                        where sin, cos, asin and atan2 are exact         *)
(* A JavaScript value that may be a number, NaN or null is a record        *)
(* [k, v] so that comparisons follow JavaScript (NaN compares false).      *)
(***************************************************************************)
EXTENDS Integers, Sequences, FiniteSets, TLC

VARIABLES
    app,            \* "form" (part_000) or "map" (script.js): the page loaded
    \* ---- form application (src/unnamed/part_000) ----
    inputType,      \* inputType.value: "lonlat" | "address" | "lambert"
    pc,             \* where run() is suspended: "idle" | "geocoding" | "fetching"
    loading,        \* setLoading: run button and inputs disabled
    cur,            \* locals of the suspended run(): zRef, lon, lat, label, points
    status,         \* statusEl: [kind, msg]
    coords,         \* coordsLine1/2: dash or the resolved coordinates
    factorText,     \* orographyFactorEl.textContent
    AcText,         \* AcEl.textContent
    AmText,         \* AmEl.textContent
    warningShown,   \* warningEl visible (c0 > 1.15 note)
    samples,        \* rows of samplesTbody
    geoReqs,        \* geocoding requests issued by the last submit's run
    elevReqs,       \* elevation requests issued by the last submit's run (point lists)
    returned,       \* <<>> or <<r>>: what computeOrographyFactorComplex returned
    lastData,       \* <<>> or <<d>>: the elevation response body handled last
    zInput,         \* <<>> or <<t>>: the text of zRef the last submit read
    lambertIn,      \* <<>> or <<c>>: the last submit's Lambert conversion: the
                    \* northing, the CRS selected, and what proj4 returned
    \* ---- map application (src/script.js) ----
    height,         \* value of the input "height", as parseFloat reads it (not edited
                    \* while the page is used)
    slotText,       \* textContent of the nine elevation spans, by slot
    mapFactor,      \* textContent of "orography_factor" (hundredths)
    mapComment,     \* which text "orography_factor_comment" holds
    mapCoords,      \* the latitude/longitude spans: the origin applied last
    inflight,       \* elevation requests not yet settled, oldest first
    geoInflight,    \* Nominatim requests not yet settled
    mapReqs,        \* requests issued by the latest applyResolvedCoordinates: points in each
    slotOrigin,     \* by slot: <<>> or <<o>>, the origin whose response wrote it
    lastCalc,       \* <<>> or <<c>>: the inputs of the factor written last
    \* ---- destinationPoint called on its own ----
    geoIn,          \* <<>> or the arguments: [lat, lon, distanceM, bearingDeg]
    geoOut          \* <<>> or <<r>>: what the call returned, with the longitude
                    \* before normalisation

formVars == <<inputType, pc, loading, cur, status, coords, factorText, AcText,
              AmText, warningShown, samples, geoReqs, elevReqs, returned, lastData,
              zInput, lambertIn>>

mapVars == <<height, slotText, mapFactor, mapComment, mapCoords, inflight,
             geoInflight, mapReqs, slotOrigin, lastCalc>>

geoVars == <<geoIn, geoOut>>

vars == <<app, formVars, mapVars, geoVars>>

(***************************************************************************)
(* Bounds of the model.                                                    *)
(***************************************************************************)
\* Elevations drawn are 100*l and 100*l + 47 for l in 0..MaxElevLevel.
MaxElevLevel == 2
\* A response may overtake the older requests: the one settled next is among
\* the MaxReorder oldest outstanding requests.
MaxReorder == 2
\* A calculation starts while at most MaxStale older requests are outstanding.
MaxStale == 0

(***************************************************************************)
(* JavaScript values.                                                      *)
(***************************************************************************)
Num(n) == [k |-> "num", v |-> n]
NaN == [k |-> "nan", v |-> 0]
null == [k |-> "null", v |-> 0]

\* Number.isFinite
isFinite(x) == x.k = "num"

\* x < c and x > c for a JavaScript value x and a number c: false for NaN
Lt(x, c) == x.k = "num" /\ x.v < c
Gt(x, c) == x.k = "num" /\ x.v > c

\* The text of an input field: a number, empty, or something else.
NumText(n) == [k |-> "numtext", v |-> n]
EmptyText == [k |-> "empty", v |-> 0]
JunkText == [k |-> "junk", v |-> 0]

\* toNumber: Number(String(v).trim()), null unless finite.  Number("") is 0.
toNumber(t) ==
    CASE t.k = "numtext" -> Num(t.v)
      [] t.k = "empty" -> Num(0)
      [] OTHER -> null

validateLonLat(lon, lat) ==
    IF lon = null \/ lat = null THEN "Longitude and latitude must be numbers."
    ELSE IF Lt(lat, -90) \/ Gt(lat, 90) THEN "Latitude must be between -90 and 90."
    ELSE IF Lt(lon, -180) \/ Gt(lon, 180) THEN "Longitude must be between -180 and 180."
    ELSE ""

\* A variant whose threshold includes 2,000,000
detectLambertCrsInclusive(northing) ==
    IF northing # null /\ (Gt(northing, 2000000) \/ northing = Num(2000000))
    THEN "EPSG:31370" ELSE "EPSG:3812"

detectLambertCrs(northing) ==
    IF northing # null /\ Gt(northing, 2000000) THEN "EPSG:31370" ELSE "EPSG:3812"

(***************************************************************************)
(* Geodesy: destinationPoint, on the grid of multiples of 90 degrees.      *)
(***************************************************************************)
\* Earth radius in metres
R == 6371000

\* a % b of JavaScript: the sign of the dividend
JsRem(a, b) == IF a >= 0 THEN a % b ELSE -((-a) % b)

\* sin and cos of an angle in degrees (a multiple of 90)
SinDeg(d) == CASE d % 360 = 0 -> 0 [] d % 360 = 90 -> 1 [] d % 360 = 180 -> 0 [] d % 360 = 270 -> -1
CosDeg(d) == SinDeg(d + 90)

\* Math.asin in degrees, of -1, 0 or 1
AsinDeg(s) == 90 * s

\* Math.atan2(y, x) in degrees, y and x in {-1, 0, 1}
Atan2Deg(y, x) ==
    CASE y = 0 /\ x >= 0 -> 0
      [] y = 0 /\ x < 0 -> 180
      [] y > 0 /\ x = 0 -> 90
      [] y < 0 /\ x = 0 -> -90
      [] y > 0 /\ x > 0 -> 45
      [] y > 0 /\ x < 0 -> 135
      [] y < 0 /\ x > 0 -> -45
      [] y < 0 /\ x < 0 -> -135

\* delta = distanceM / R, in whole degrees (rounded): one degree of arc is
\* pi * R / 180 metres = R * 1000 / 57296 (computed without overflow).
ArcDeg(distanceM) ==
    LET metresPerDegree == ((R \div 8) * 1000) \div 7162
    IN  (distanceM + metresPerDegree \div 2) \div metresPerDegree

\* phi2 and lambda2 of destinationPoint, in degrees, for numbers lat and lon
Destination(lat, lon, distanceM, bearingDeg) ==
    LET phi1 == lat
        lambda1 == lon
        theta == bearingDeg
        delta == ArcDeg(distanceM)
        sinPhi2 == SinDeg(phi1) * CosDeg(delta) + CosDeg(phi1) * SinDeg(delta) * CosDeg(theta)
        phi2 == AsinDeg(sinPhi2)
        y == SinDeg(theta) * SinDeg(delta) * CosDeg(phi1)
        x == CosDeg(delta) - SinDeg(phi1) * SinDeg(phi2)
        lambda2 == lambda1 + Atan2Deg(y, x)
    IN  [phi2 |-> phi2, lambda2 |-> lambda2]

\* A variant that returns the longitude as computed
NormalizeLonNone(lon2) == lon2

\* normalize lon to -180..180: ((lon2 + 540) % 360) - 180
NormalizeLon(lon2) == JsRem(lon2 + 540, 360) - 180

destinationPoint(lat, lon, distanceM, bearingDeg) ==
    IF ~isFinite(lat) \/ ~isFinite(lon) THEN [lat |-> NaN, lon |-> NaN]
    ELSE
    LET d == Destination(lat.v, lon.v, distanceM, bearingDeg)
    IN  [lat |-> Num(d.phi2), lon |-> Num(NormalizeLon(d.lambda2))]

(***************************************************************************)
(* Sample plan and orography factor (computeOrographyFactorComplex).       *)
(***************************************************************************)
bearings == << [name |-> "N", deg |-> 0], [name |-> "E", deg |-> 90],
               [name |-> "S", deg |-> 180], [name |-> "W", deg |-> 270] >>
distances == << 500, 1000 >>

\* A variant with the loops nested the other way: for d of distances, for b
\* of bearings
BuildPointsByDistance(lon, lat) ==
    LET center == [label |-> "CENTER", lat |-> lat, lon |-> lon,
                   distanceM |-> 0, bearingDeg |-> null]
        ring(i) ==
            LET b == bearings[((i - 1) % Len(bearings)) + 1]
                d == distances[((i - 1) \div Len(bearings)) + 1]
                p == destinationPoint(lat, lon, d, b.deg)
            IN  [label |-> b.name, lat |-> p.lat, lon |-> p.lon,
                 distanceM |-> d, bearingDeg |-> Num(b.deg)]
    IN  <<center>> \o [i \in 1..(Len(bearings) * Len(distances)) |-> ring(i)]

\* points: CENTER first, then for b of bearings, for d of distances
BuildPoints(lon, lat) ==
    LET center == [label |-> "CENTER", lat |-> lat, lon |-> lon,
                   distanceM |-> 0, bearingDeg |-> null]
        ring(i) ==
            LET b == bearings[((i - 1) \div Len(distances)) + 1]
                d == distances[((i - 1) % Len(distances)) + 1]
                p == destinationPoint(lat, lon, d, b.deg)
            IN  [label |-> b.name, lat |-> p.lat, lon |-> p.lon,
                 distanceM |-> d, bearingDeg |-> Num(b.deg)]
    IN  <<center>> \o [i \in 1..(Len(bearings) * Len(distances)) |-> ring(i)]

RECURSIVE SumSeq(_)
SumSeq(s) == IF s = <<>> THEN 0 ELSE s[1].v + SumSeq(Tail(s))

\* Math.exp(-0.014 * d) in units of 1e-4, d = max(0, z - 10) a multiple of 10
ExpAttenuation(d) ==
    CASE d = 0 -> 10000
      [] d = 10 -> 8694
      [] d = 20 -> 7558
      [] d = 30 -> 6570
      [] d = 40 -> 5712

Max(a, b) == IF a >= b THEN a ELSE b

\* A variant that counts the site elevation once
MeanElevationSingleWeight(Ac, sumSamples) == Ac + sumSamples

\* Am = (2*Ac + sumSamples) / 10, in tenths of a metre
MeanElevation10(Ac, sumSamples) == 2 * Ac + sumSamples

\* 1 + 0.004 * (Ac - Am) * attenuation, in units of 1e-8
RawFactor(Ac, Am10, attenuation) == 100000000 + 4 * (10 * Ac - Am10) * attenuation

\* if (c0 < 1) c0 = 1
FloorAtOne(c0) == IF c0 < 100000000 THEN 100000000 ELSE c0

\* A variant that never finds the site elevation missing
CenterAlwaysAvailable(Ac) == FALSE

\* if (!Number.isFinite(Ac))
CenterUnavailable(Ac) == ~isFinite(Ac)

\* The part of computeOrographyFactorComplex after the await: an error
\* message, or the returned record.
ComputeAfterFetch(points, elevations, zRefMeters) ==
    LET Ac == elevations[1]
        sampleElevs == SubSeq(elevations, 2, Len(elevations))
    IN  IF CenterUnavailable(Ac)
        THEN [err |-> "Could not determine site elevation."]
        ELSE IF \E i \in 1..Len(sampleElevs) : ~isFinite(sampleElevs[i])
        THEN [err |-> "Could not determine all sampled elevations."]
        ELSE
        LET sumSamples == SumSeq(sampleElevs)
            Am10 == MeanElevation10(Ac.v, sumSamples)
            z == Max(0, IF isFinite(zRefMeters) THEN zRefMeters.v ELSE 10)
            attenuation == ExpAttenuation(Max(0, z - 10))
            c0 == FloorAtOne(RawFactor(Ac.v, Am10, attenuation))
        IN  [err |-> "", c0 |-> c0, Ac |-> Ac.v, Am10 |-> Am10,
             points |-> points, elevations |-> elevations]

(***************************************************************************)
(* Form application: outputs.                                              *)
(***************************************************************************)
\* textContent of an output: the placeholder dash, or a number of n units
Dash == [k |-> "dash", v |-> 0]
Shown(n) == [k |-> "text", v |-> n]

\* c0.toFixed(3): thousandths, rounded to nearest (c0 in units of 1e-8)
ToFixed3(c0) == (c0 + 50000) \div 100000

\* if (c0 > 1.15): the warning is shown
WarnAbove(c0) == c0 > 115000000

\* renderSamples: one row per point, elevation by index
renderSamples(points, elevations) ==
    [i \in 1..Len(points) |->
        [label |-> points[i].label, distanceM |-> points[i].distanceM,
         bearingDeg |-> points[i].bearingDeg, lat |-> points[i].lat,
         lon |-> points[i].lon,
         elevation |-> IF i <= Len(elevations) /\ isFinite(elevations[i])
                       THEN Shown(10 * elevations[i].v) ELSE Dash]]

NoLocals == [zRef |-> null, lon |-> null, lat |-> null, label |-> "", points |-> <<>>]

(***************************************************************************)
(* Inputs drawn by the actions.                                            *)
(***************************************************************************)
ZTexts == {JunkText, EmptyText, NumText(-5), NumText(10), NumText(50)}
LonTexts == {JunkText, NumText(0), NumText(180), NumText(270)}
LatTexts == {JunkText, NumText(0), NumText(180)}
Addresses == {"", "Brussels"}
GeoResults == {[lat |-> Num(0), lon |-> Num(0), label |-> "Brussels, BE"],
               [lat |-> Num(90), lon |-> Num(180), label |-> "Pole"]}
EastingTexts == {JunkText, NumText(150000)}
NorthingTexts == {NumText(2000000), NumText(2000001)}
CrsChoices == {"auto", "EPSG:31370", "EPSG:3812"}
\* what proj4 may do with a planar point: it is a library outside the
\* repository, so any of these.  fwdThrows: the later forward transform of
\* that point (wgs84ToLambert) refuses coordinates that are not finite.
Proj4Outputs == {[lon |-> Num(0), lat |-> Num(0), fwdThrows |-> FALSE],
                 [lon |-> Num(270), lat |-> Num(0), fwdThrows |-> FALSE],
                 [lon |-> Num(0), lat |-> Num(180), fwdThrows |-> FALSE],
                 [lon |-> NaN, lat |-> NaN, fwdThrows |-> FALSE],
                 [lon |-> NaN, lat |-> NaN, fwdThrows |-> TRUE]}

ElevationValues == {100 * l + o : l \in 0..MaxElevLevel, o \in {0, 47}}
CenterEntries == {Num(e) : e \in ElevationValues} \cup {null}
RingLevels == {Num(100 * l) : l \in 0..MaxElevLevel}
\* eight ring entries: all v, except w at index k
RingWith(v, k, w) == [i \in 1..8 |-> IF i = k THEN w ELSE v]
\* all equal; around 100 m, one unavailable at any index, or one at sea
\* level at the first or the last index
RingProfiles ==
    {RingWith(v, 1, v) : v \in RingLevels}
    \cup {RingWith(Num(100), k, null) : k \in 1..8}
    \cup {RingWith(Num(100), k, Num(0)) : k \in {1, 8}}
NineElevations == {<<c>> \o r : c \in CenterEntries, r \in RingProfiles}
Flat9(v) == [i \in 1..9 |-> Num(v)]
\* response bodies: data.elevation of nine entries, of a wrong length, or no array
ElevationBodies ==
    {[isArray |-> TRUE, elevation |-> e] : e \in NineElevations}
    \cup {[isArray |-> TRUE, elevation |-> SubSeq(Flat9(100), 1, 8)],
          [isArray |-> TRUE, elevation |-> Flat9(100) \o <<Num(100)>>],
          [isArray |-> TRUE, elevation |-> <<>>],
          [isArray |-> FALSE, elevation |-> <<>>]}

(***************************************************************************)
(* Form application: initial state and the submit handler.                 *)
(***************************************************************************)
\* boot(): showPanel, clearOutputs
FormInit ==
    /\ inputType \in {"lonlat", "address", "lambert"}
    /\ pc = "idle"
    /\ loading = FALSE
    /\ cur = NoLocals
    /\ status = [kind |-> "info", msg |-> ""]
    /\ coords = Dash
    /\ factorText = Dash
    /\ AcText = Dash
    /\ AmText = Dash
    /\ warningShown = FALSE
    /\ samples = <<>>
    /\ geoReqs = 0
    /\ elevReqs = <<>>
    /\ returned = <<>>
    /\ lastData = <<>>
    /\ zInput = <<>>
    /\ lambertIn = <<>>

\* clearOutputs()
clearOutputs ==
    /\ coords' = Dash
    /\ factorText' = Dash
    /\ AcText' = Dash
    /\ AmText' = Dash
    /\ warningShown' = FALSE
    /\ samples' = <<>>

\* A variant without the finally: the controls stay disabled after an error
ThrownStillLoading(msg) ==
    /\ status' = [kind |-> "error", msg |-> msg]
    /\ loading' = TRUE
    /\ pc' = "idle"
    /\ cur' = NoLocals

\* run() threw: catch sets the error status, finally setLoading(false)
Thrown(msg) ==
    /\ status' = [kind |-> "error", msg |-> msg]
    /\ loading' = FALSE
    /\ pc' = "idle"
    /\ cur' = NoLocals

\* A variant in which the run button is never disabled
CanSubmitWhileLoading == app = "form"

\* The submit handler may run: the run button is enabled
CanSubmit == app = "form" /\ pc = "idle" /\ ~loading

FetchingStatus == [kind |-> "info", msg |-> "Fetching elevations & calculating..."]

\* run() from the coordinate display to the await of fetchElevations:
\* wgs84ToLambert (proj4, which may refuse coordinates that are not finite),
\* updateResolvedCoordinateDisplay, setStatus, then the point list and the
\* one fetch of computeOrographyFactorComplex.
ResolveAndFetch(zRef, lon, lat, label, displayCrs, projThrows) ==
    IF projThrows /\ (~isFinite(lon) \/ ~isFinite(lat))
    THEN /\ Thrown("coordinates must be finite numbers")
         /\ coords' = Dash
         /\ elevReqs' = <<>>
    ELSE /\ coords' = [k |-> "coords", lon |-> lon, lat |-> lat,
                       crs |-> displayCrs, label |-> label]
         /\ status' = FetchingStatus
         /\ elevReqs' = <<BuildPoints(lon, lat)>>
         /\ cur' = [zRef |-> zRef, lon |-> lon, lat |-> lat, label |-> label,
                    points |-> BuildPoints(lon, lat)]
         /\ pc' = "fetching"
         /\ loading' = TRUE

\* A variant that only refuses a height that is not a number
BadReferenceHeightNullOnly(zRef) == zRef = null

\* zRef === null || zRef < 0
BadReferenceHeight(zRef) == zRef = null \/ Lt(zRef, 0)

\* run() threw before anything was resolved or requested
Rejected(msg) ==
    /\ Thrown(msg)
    /\ coords' = Dash
    /\ elevReqs' = <<>>

\* submit: clearOutputs, setLoading(true), and the first lines of run()
SubmitBegin(zTxt) ==
    /\ CanSubmit
    /\ zInput' = <<zTxt>>
    /\ factorText' = Dash
    /\ AcText' = Dash
    /\ AmText' = Dash
    /\ warningShown' = FALSE
    /\ samples' = <<>>
    /\ returned' = <<>>
    /\ lastData' = <<>>
    /\ UNCHANGED <<app, inputType, mapVars, geoVars>>

\* submit in mode "lonlat"
SubmitLonLat(zTxt, lonTxt, latTxt) ==
    /\ SubmitBegin(zTxt)
    /\ inputType = "lonlat"
    /\ geoReqs' = 0
    /\ lambertIn' = <<>>
    /\ LET zRef == toNumber(zTxt)
           lonN == toNumber(lonTxt)
           latN == toNumber(latTxt)
           err == validateLonLat(lonN, latN)
       IN  IF BadReferenceHeight(zRef)
           THEN Rejected("Reference height z must be a non-negative number.")
           ELSE IF err # ""
           THEN Rejected(err)
           ELSE ResolveAndFetch(zRef, lonN, latN, "", "EPSG:31370", FALSE)

\* submit in mode "address": geocodeAddress throws on an empty name, else
\* issues the geocoding request and run() waits for it
SubmitAddress(zTxt, address) ==
    /\ SubmitBegin(zTxt)
    /\ inputType = "address"
    /\ lambertIn' = <<>>
    /\ coords' = Dash
    /\ elevReqs' = <<>>
    /\ LET zRef == toNumber(zTxt)
       IN  IF BadReferenceHeight(zRef)
           THEN /\ Thrown("Reference height z must be a non-negative number.")
                /\ geoReqs' = 0
           ELSE IF address = ""
           THEN /\ Thrown("Please enter an address.")
                /\ geoReqs' = 0
           ELSE /\ geoReqs' = 1
                /\ status' = [kind |-> "info", msg |-> ""]
                /\ cur' = [NoLocals EXCEPT !.zRef = zRef]
                /\ pc' = "geocoding"
                /\ loading' = TRUE

\* submit in mode "lambert"; w is what proj4 returns for (x, y) in crs
\* (the message of an invalid conversion is followed by validateLonLat's)
SubmitLambert(zTxt, eTxt, nTxt, crsSel, w) ==
    /\ SubmitBegin(zTxt)
    /\ inputType = "lambert"
    /\ geoReqs' = 0
    /\ LET zRef == toNumber(zTxt)
           x == toNumber(eTxt)
           y == toNumber(nTxt)
           crs == IF crsSel = "auto" THEN detectLambertCrs(y) ELSE crsSel
           err == validateLonLat(w.lon, w.lat)
           lambertDisplayCrs == IF crsSel # "auto" THEN crsSel ELSE "EPSG:31370"
           converted == <<[northing |-> y, crsSel |-> crsSel, crs |-> crs,
                           lon |-> w.lon, lat |-> w.lat]>>
       IN  IF BadReferenceHeight(zRef)
           THEN Rejected("Reference height z must be a non-negative number.")
                /\ lambertIn' = <<>>
           ELSE IF x = null \/ y = null
           THEN Rejected("Easting and northing must be numbers.")
                /\ lambertIn' = <<>>
           ELSE IF err # ""
           THEN Rejected("Lambert -> WGS84 conversion produced invalid coordinates")
                /\ lambertIn' = converted
           ELSE ResolveAndFetch(zRef, w.lon, w.lat, crs, lambertDisplayCrs, w.fwdThrows)
                /\ lambertIn' = converted

\* the geocoding request settles
GeocodeResponse(outcome, g) ==
    /\ app = "form"
    /\ pc = "geocoding"
    /\ UNCHANGED <<app, inputType, factorText, AcText, AmText, warningShown,
                   samples, geoReqs, returned, lastData, zInput, lambertIn,
                   mapVars, geoVars>>
    /\ CASE outcome = "neterr" -> Rejected("Failed to fetch")
         [] outcome = "http" -> Rejected("Geocoding failed (HTTP).")
         [] outcome = "empty" -> Rejected("No results found for that address.")
         [] outcome = "ok" ->
                ResolveAndFetch(cur.zRef, g.lon, g.lat, g.label, "EPSG:31370", FALSE)

\* the elevation request settles: the rest of fetchElevations, of
\* computeOrographyFactorComplex and of run()
ElevationResponse(outcome, data) ==
    /\ app = "form"
    /\ pc = "fetching"
    /\ UNCHANGED <<app, inputType, coords, geoReqs, elevReqs, zInput, lambertIn,
                   mapVars, geoVars>>
    /\ loading' = FALSE
    /\ pc' = "idle"
    /\ cur' = NoLocals
    /\ lastData' = IF outcome = "ok" THEN <<data>> ELSE <<>>
    /\ LET points == cur.points
           lengthOk == data.isArray /\ Len(data.elevation) = Len(points)
           elevations == [i \in 1..Len(data.elevation) |->
                            IF isFinite(data.elevation[i]) THEN data.elevation[i] ELSE null]
           r == ComputeAfterFetch(points, elevations, cur.zRef)
           failed(msg) ==
               /\ status' = [kind |-> "error", msg |-> msg]
               /\ returned' = <<>>
               /\ UNCHANGED <<factorText, AcText, AmText, warningShown, samples>>
       IN  CASE outcome = "neterr" -> failed("Failed to fetch")
             [] outcome = "http" -> failed("Elevation request failed (HTTP).")
             [] outcome = "ok" /\ ~lengthOk -> failed("Unexpected elevation response.")
             [] outcome = "ok" /\ lengthOk /\ r.err # "" -> failed(r.err)
             [] outcome = "ok" /\ lengthOk /\ r.err = "" ->
                    /\ returned' = <<r>>
                    /\ factorText' = Shown(ToFixed3(r.c0))
                    /\ AcText' = Shown(10 * r.Ac)
                    /\ AmText' = Shown(r.Am10)
                    /\ samples' = renderSamples(r.points, r.elevations)
                    /\ warningShown' = WarnAbove(r.c0)
                    /\ status' = [kind |-> "ok", msg |-> "Done."]

\* inputType change handler: showPanel, clearOutputs
InputTypeChange(t) ==
    /\ app = "form"
    /\ ~loading
    /\ inputType' = t
    /\ clearOutputs
    /\ status' = [kind |-> "info", msg |-> ""]
    /\ returned' = <<>>
    /\ lastData' = <<>>
    /\ zInput' = <<>>
    /\ lambertIn' = <<>>
    /\ UNCHANGED <<app, pc, loading, cur, geoReqs, elevReqs, mapVars, geoVars>>

\* clear button: clearInputs, clearOutputs
ClearClick ==
    /\ app = "form"
    /\ ~loading
    /\ clearOutputs
    /\ status' = [kind |-> "info", msg |-> ""]
    /\ returned' = <<>>
    /\ lastData' = <<>>
    /\ zInput' = <<>>
    /\ lambertIn' = <<>>
    /\ UNCHANGED <<app, inputType, pc, loading, cur, geoReqs, elevReqs, mapVars, geoVars>>

FormNext ==
    \/ \E z \in ZTexts, lo \in LonTexts, la \in LatTexts : SubmitLonLat(z, lo, la)
    \/ \E z \in ZTexts, a \in Addresses : SubmitAddress(z, a)
    \/ \E z \in ZTexts, e \in EastingTexts, n \in NorthingTexts, c \in CrsChoices,
          w \in Proj4Outputs : SubmitLambert(z, e, n, c, w)
    \/ \E o \in {"neterr", "http", "empty"} : GeocodeResponse(o, [lat |-> null, lon |-> null, label |-> ""])
    \/ \E g \in GeoResults : GeocodeResponse("ok", g)
    \/ \E o \in {"neterr", "http"} : ElevationResponse(o, [isArray |-> FALSE, elevation |-> <<>>])
    \/ \E d \in ElevationBodies : ElevationResponse("ok", d)
    \/ \E t \in {"lonlat", "address", "lambert"} : InputTypeChange(t)
    \/ ClearClick

(***************************************************************************)
(* Map application (src/script.js).                                        *)
(***************************************************************************)
\* The elevation spans, in the order their requests are issued:
\* calculateElevation, then calculateAllDirectons
SlotIds == << "elevation", "north_05km", "south_05km", "east_05km", "west_05km",
              "north_1km", "south_1km", "east_1km", "west_1km" >>
Slots == 1..Len(SlotIds)

\* textContent of a span: as loaded, a number, "null", or 'Data not available'
InitialText == [k |-> "init", v |-> 0]
NumberText(n) == [k |-> "num", v |-> n]
NullText == [k |-> "null", v |-> 0]
NotAvailableText == [k |-> "na", v |-> 0]

\* parseFloat(text.split(" ")[0])
parseFloatText(t) == IF t.k = "num" THEN Num(t.v) ELSE NaN

\* parseFloat(String(v).replace(',', '.')) of an input field
parseFloatField(t) == IF t.k = "numtext" THEN Num(t.v) ELSE NaN

\* The ground: the elevation service answers by the point asked for, which
\* is the point of slot i around the origin (0.5 km or 1 km away).  Sites
\* on the equator, by longitude: a hill, a hollow, a plain, a low hill over
\* ground at sea level, and a plain whose point 1 km north has no data.
MapOrigins == {[lat |-> Num(0), lon |-> Num(lo)] : lo \in {-90, 0, 90, 180}}
                \cup {[lat |-> Num(90), lon |-> Num(0)]}
Terrain(lat, lon, i) ==
    CASE lat = Num(0) /\ lon = Num(0) -> IF i = 1 THEN 200 ELSE 100
      [] lat = Num(0) /\ lon = Num(90) -> IF i = 1 THEN 0 ELSE 100
      [] lat = Num(0) /\ lon = Num(-90) -> 100
      [] lat = Num(0) /\ lon = Num(180) -> IF i = 1 THEN 47 ELSE 0
      [] lat = Num(90) /\ lon = Num(0) -> 100

\* A geographic point the elevation service accepts: finite, within
\* [-180,180] x [-90,90]
InRange(lat, lon) ==
    /\ isFinite(lat) /\ lat.v >= -90 /\ lat.v <= 90
    /\ isFinite(lon) /\ lon.v >= -180 /\ lon.v <= 180

\* The service has a value for the point of slot i around the origin
HasData(lat, lon, i) ==
    /\ [lat |-> lat, lon |-> lon] \in MapOrigins
    /\ ~(lat = Num(90) /\ lon = Num(0) /\ SlotIds[i] = "north_1km")

\* Math.ceil(n / d) for d > 0
CeilDiv(n, d) == -((-n) \div d)

\* Math.ceil(OrographyFactor * 100) / 100, in hundredths (factor in 1e-8)
CeilHundredths(f) == CeilDiv(f, 1000000)

\* A variant whose chain tests "above 1.0" first, so that the branch for
\* "above 1.15" is never taken
FactorCommentShadowed(f100) ==
    IF f100 <= 100 THEN "flat"
    ELSE IF f100 > 100 THEN "not flat"
    ELSE IF f100 > 115 THEN "not flat, detailed analysis"
    ELSE ""

\* the if / else if chain of calculateTotalElevation, on the rounded factor
FactorComment(f100) ==
    IF f100 <= 100 THEN "flat"
    ELSE IF f100 > 115 THEN "not flat, detailed analysis"
    ELSE IF f100 > 100 /\ f100 <= 115 THEN "not flat"
    ELSE ""

\* 1 + 0.004 * DeltaAc * exp(-0.014 * (towerHeight - 10)) if towerHeight > 10,
\* else with exp(-0.014 * (10 - 10)); in units of 1e-8
LegacyFactor(elevation, Am10, towerHeight) ==
    IF Gt(towerHeight, 10)
    THEN 100000000 + 4 * (10 * elevation - Am10) * ExpAttenuation(towerHeight.v - 10)
    ELSE 100000000 + 4 * (10 * elevation - Am10) * ExpAttenuation(10 - 10)

\* calculateTotalElevation on the spans txt: [write |-> FALSE] when it returns
\* early, else what it writes
calculateTotalElevation(txt, towerHeight) ==
    LET e(i) == parseFloatText(txt[i])
    IN  IF \E i \in Slots : ~isFinite(e(i))
        THEN [write |-> FALSE]
        ELSE
        LET elevation == e(1).v
            sum1km == e(6).v + e(7).v + e(8).v + e(9).v
            sum05km == e(2).v + e(3).v + e(4).v + e(5).v
            Am10 == 2 * elevation + sum1km + sum05km
            OrographyFactor == CeilHundredths(LegacyFactor(elevation, Am10, towerHeight))
        IN  [write |-> TRUE, elevation |-> elevation, Am10 |-> Am10,
             towerHeight |-> towerHeight, factor |-> OrographyFactor,
             comment |-> FactorComment(OrographyFactor)]

Heights == {NumText(-5), NumText(10), NumText(50)}

NoOrigin == <<>>

\* The page as loaded.  DOMContentLoaded ends with calculate(): that first
\* calculation is one of the calculate actions below, taken from this state.
MapInit ==
    /\ height \in {parseFloatField(h) : h \in Heights}
    /\ slotText = [i \in Slots |-> InitialText]
    /\ mapFactor = Dash
    /\ mapComment = ""
    /\ mapCoords = Dash
    /\ inflight = <<>>
    /\ geoInflight = 0
    /\ mapReqs = <<>>
    /\ slotOrigin = [i \in Slots |-> NoOrigin]
    /\ lastCalc = <<>>

\* A calculation may start (bound of the model)
CanStart == app = "map" /\ Len(inflight) <= MaxStale /\ geoInflight = 0

\* The request of slot i around an origin: one point per request
SlotRequest(latitude, longitude, i) ==
    [slot |-> i, lat |-> latitude, lon |-> longitude]

\* applyResolvedCoordinates: the coordinate spans, then calculateElevation and
\* calculateAllDirectons: nine requests, one per slot
applyResolvedCoordinates(latitude, longitude) ==
    /\ mapCoords' = [k |-> "coords", lat |-> latitude, lon |-> longitude]
    /\ mapReqs' = [i \in Slots |-> Len(<<SlotRequest(latitude, longitude, i)>>)]
    /\ inflight' = inflight \o [i \in Slots |-> SlotRequest(latitude, longitude, i)]

\* calculate() with inputType "lonlat"
calculateFromLonLat(lonTxt, latTxt) ==
    /\ CanStart
    /\ LET longitude == parseFloatField(lonTxt)
           latitude == parseFloatField(latTxt)
       IN  IF ~isFinite(longitude) \/ ~isFinite(latitude)
           THEN UNCHANGED <<mapCoords, mapReqs, inflight>>
           ELSE IF Lt(latitude, -90) \/ Gt(latitude, 90) \/ Lt(longitude, -180) \/ Gt(longitude, 180)
           THEN UNCHANGED <<mapCoords, mapReqs, inflight>>
           ELSE applyResolvedCoordinates(latitude, longitude)
    /\ UNCHANGED <<app, formVars, geoVars, height, slotText, mapFactor, mapComment,
                   geoInflight, slotOrigin, lastCalc>>

\* calculate() with inputType "lambert72" or "lambert2008"; w is what proj4
\* returns: it is applied without validation
calculateFromLambert(xTxt, yTxt, w) ==
    /\ CanStart
    /\ LET x == parseFloatField(xTxt)
           y == parseFloatField(yTxt)
       IN  IF ~isFinite(x) \/ ~isFinite(y)
           THEN UNCHANGED <<mapCoords, mapReqs, inflight>>
           ELSE applyResolvedCoordinates(w.lat, w.lon)
    /\ UNCHANGED <<app, formVars, geoVars, height, slotText, mapFactor, mapComment,
                   geoInflight, slotOrigin, lastCalc>>

\* calculate() with inputType "address": the Nominatim request is issued
calculateFromAddress(address) ==
    /\ CanStart
    /\ IF address = ""
       THEN UNCHANGED geoInflight
       ELSE geoInflight' = geoInflight + 1
    /\ UNCHANGED <<app, formVars, geoVars, height, slotText, mapFactor, mapComment, mapCoords,
                   inflight, mapReqs, slotOrigin, lastCalc>>

\* the Nominatim request settles
MapGeocodeResponse(outcome, g) ==
    /\ app = "map"
    /\ geoInflight > 0
    /\ geoInflight' = geoInflight - 1
    /\ IF outcome = "ok"
       THEN applyResolvedCoordinates(g.lat, g.lon)
       ELSE UNCHANGED <<mapCoords, mapReqs, inflight>>
    /\ UNCHANGED <<app, formVars, geoVars, height, slotText, mapFactor, mapComment,
                   slotOrigin, lastCalc>>

\* marker dragend
MarkerDragEnd(pos) ==
    /\ CanStart
    /\ applyResolvedCoordinates(pos.lat, pos.lon)
    /\ UNCHANGED <<app, formVars, geoVars, height, slotText, mapFactor, mapComment,
                   geoInflight, slotOrigin, lastCalc>>

\* The service answers by the ground: a request for a point that has data
\* settles with "data", any other with one of the three failures; a request
\* around an origin out of range is refused with a body that has no elevation.
\* An elevation request settles (calculateElevation and
\* calculateElevationForDirection share the handler).  outcome: "data" (an
\* elevation array with the ground's value), "null" (an array holding null),
\* "nodata" (no elevation array), "error" (the fetch or the JSON failed).
ElevationSettles(n, outcome) ==
    /\ app = "map"
    /\ n \in 1..Len(inflight)
    /\ n <= MaxReorder
    /\ LET req == inflight[n]
           written == CASE outcome = "data" -> NumberText(Terrain(req.lat, req.lon, req.slot))
                        [] outcome = "null" -> NullText
                        [] OTHER -> NotAvailableText
           txt == [slotText EXCEPT ![req.slot] = written]
           from == [slotOrigin EXCEPT ![req.slot] = <<[lat |-> req.lat, lon |-> req.lon]>>]
           calc == calculateTotalElevation(txt, height)
       IN  /\ (outcome = "data") = HasData(req.lat, req.lon, req.slot)
           /\ ~InRange(req.lat, req.lon) => outcome = "nodata"
           /\ inflight' = SubSeq(inflight, 1, n - 1) \o SubSeq(inflight, n + 1, Len(inflight))
           /\ IF outcome = "error"
              THEN UNCHANGED <<slotText, slotOrigin, mapFactor, mapComment, lastCalc>>
              ELSE /\ slotText' = txt
                   /\ slotOrigin' = from
                   /\ IF outcome \in {"data", "null"} /\ calc.write
                      THEN /\ mapFactor' = Shown(calc.factor)
                           /\ mapComment' = calc.comment
                           /\ lastCalc' = <<[elevations |-> [i \in Slots |-> parseFloatText(txt[i])],
                                             towerHeight |-> calc.towerHeight,
                                             origins |-> {from[i] : i \in Slots},
                                             latest |-> [lat |-> mapCoords.lat,
                                                         lon |-> mapCoords.lon]]>>
                      ELSE UNCHANGED <<mapFactor, mapComment, lastCalc>>
    /\ UNCHANGED <<app, formVars, geoVars, height, mapCoords, geoInflight, mapReqs>>

MapLonTexts == {JunkText, NumText(-90), NumText(0), NumText(90), NumText(180), NumText(270)}
MapLatTexts == {JunkText, NumText(0), NumText(180)}
MapGeoResults == {[lat |-> Num(0), lon |-> Num(0)], [lat |-> Num(0), lon |-> Num(90)]}
\* what proj4 may return for a planar point: a site, or a latitude out of range
MapProj4Outputs == {[lat |-> Num(0), lon |-> Num(0)], [lat |-> Num(0), lon |-> Num(180)],
                    [lat |-> Num(180), lon |-> Num(0)]}

MapNext ==
    \/ \E lo \in MapLonTexts, la \in MapLatTexts : calculateFromLonLat(lo, la)
    \/ \E x \in EastingTexts, y \in NorthingTexts, w \in MapProj4Outputs : calculateFromLambert(x, y, w)
    \/ \E a \in Addresses : calculateFromAddress(a)
    \/ \E o \in {"ok", "empty", "error"}, g \in MapGeoResults : MapGeocodeResponse(o, g)
    \/ \E pos \in MapOrigins : MarkerDragEnd(pos)
    \/ \E n \in 1..MaxReorder, o \in {"data", "null", "nodata", "error"} : ElevationSettles(n, o)

Init ==
    /\ app \in {"form", "map"}
    /\ FormInit
    /\ MapInit
    /\ geoIn = <<>>
    /\ geoOut = <<>>
    /\ app = "form" => height = Num(10)
    /\ app = "map" => inputType = "lonlat"

Next ==
    \/ FormNext
    \/ MapNext

Spec == Init /\ [][Next]_vars

\* A request of the form application settles
RequestSettles ==
    \/ \E o \in {"neterr", "http", "empty"} : GeocodeResponse(o, [lat |-> null, lon |-> null, label |-> ""])
    \/ \E g \in GeoResults : GeocodeResponse("ok", g)
    \/ \E o \in {"neterr", "http"} : ElevationResponse(o, [isArray |-> FALSE, elevation |-> <<>>])
    \/ \E d \in ElevationBodies : ElevationResponse("ok", d)

\* The program when every request of the form application eventually settles
LiveSpec == Init /\ [][Next]_vars /\ WF_vars(RequestSettles)

(***************************************************************************)
(* destinationPoint on its own: the arguments are drawn, one call is made. *)
(***************************************************************************)
\* Distances of up to MaxQuarterTurns quarters of a great circle are drawn.
MaxQuarterTurns == 3

\* a quarter of a great circle in metres: 90 degrees of arc
QuarterCircle == 90 * (((R \div 8) * 1000) \div 7162)

GeoLats == {-90, 0, 90}
GeoLons == {-180, -90, 0, 90, 180}
GeoBearings == {0, 90, 180, 270}
GeoDistances == {0} \cup {distances[i] : i \in 1..Len(distances)}
                    \cup {q * QuarterCircle : q \in 1..MaxQuarterTurns}

GeoInit ==
    /\ app = "geo"
    /\ FormInit
    /\ inputType = "lonlat"
    /\ MapInit
    /\ height = Num(10)
    /\ geoIn \in [lat : GeoLats, lon : GeoLons, distanceM : GeoDistances,
                   bearingDeg : GeoBearings]
    /\ geoOut = <<>>

\* destinationPoint(lat, lon, distanceM, bearingDeg) is called and returns
CallDestinationPoint ==
    /\ app = "geo"
    /\ geoOut = <<>>
    /\ LET r == destinationPoint(Num(geoIn.lat), Num(geoIn.lon), geoIn.distanceM,
                                 geoIn.bearingDeg)
           d == Destination(geoIn.lat, geoIn.lon, geoIn.distanceM, geoIn.bearingDeg)
       IN  geoOut' = <<[lat |-> r.lat, lon |-> r.lon, lambda2 |-> d.lambda2]>>
    /\ UNCHANGED <<app, formVars, mapVars, geoIn>>

GeoNext == CallDestinationPoint

GeoSpec == GeoInit /\ [][GeoNext]_vars

(***************************************************************************)
(* Properties.                                                             *)
(***************************************************************************)
\* the eight ring elevations of nine, summed
RingSum(e) == e[2].v + e[3].v + e[4].v + e[5].v + e[6].v + e[7].v + e[8].v + e[9].v

\* all nine elevations are the same number
AllEqual(e) == \A i \in 1..9 : isFinite(e[i]) /\ e[i] = e[1]

\* the form shows no result
NoFormOutput ==
    /\ factorText = Dash
    /\ AcText = Dash
    /\ AmText = Dash
    /\ samples = <<>>
    /\ returned = <<>>

\* 1 + 0.004 * (Ac - Am) for nine elevations, in units of 1e-8 (attenuation 1)
Unattenuated(e) == 100000000 + 40000 * (10 * e[1].v - (2 * e[1].v + RingSum(e)))

\* the hundredths n shown are x (in 1e-8) rounded up to the next hundredth
RoundedUpTo(n, x) == n * 1000000 >= x /\ (n - 1) * 1000000 < x

\* C1: the orography factor the program reports is never below 1.0, in the
\* form application (what computeOrographyFactorComplex returns and what is
\* displayed) and in the map application (what calculateTotalElevation writes).
C1_FactorNeverBelowOne ==
    /\ returned # <<>> => returned[1].c0 >= 100000000
    /\ factorText.k = "text" => factorText.v >= 1000
    /\ mapFactor.k = "text" => mapFactor.v >= 100

\* label, distance and bearing of the nine samples, in order
ExpectedPlan ==
    << <<"CENTER", 0, null>>,
       <<"N", 500, Num(0)>>, <<"N", 1000, Num(0)>>,
       <<"E", 500, Num(90)>>, <<"E", 1000, Num(90)>>,
       <<"S", 500, Num(180)>>, <<"S", 1000, Num(180)>> ,
       <<"W", 500, Num(270)>>, <<"W", 1000, Num(270)>> >>
PlanOf(points) ==
    [i \in 1..Len(points) |-> <<points[i].label, points[i].distanceM, points[i].bearingDeg>>]

\* C2: the form application samples exactly nine points in the fixed order
\* CENTER, N-500, N-1000, E-500, E-1000, S-500, S-1000, W-500, W-1000, the
\* centre being the origin; that list is the one sent to the elevation
\* service and the one returned with the result.
C2_SamplePlan ==
    /\ \A i \in 1..Len(elevReqs) : PlanOf(elevReqs[i]) = ExpectedPlan
    /\ pc = "fetching" =>
          /\ elevReqs = <<cur.points>>
          /\ cur.points[1].lat = cur.lat
          /\ cur.points[1].lon = cur.lon
    /\ returned # <<>> =>
          /\ elevReqs = <<returned[1].points>>
          /\ Len(returned[1].elevations) = 9
          /\ PlanOf(samples) = ExpectedPlan

\* a run returned its result for an origin on the antimeridian
C2_Witness ==
    /\ returned # <<>>
    /\ Len(returned[1].points) = 9
    /\ returned[1].points[1].lon = Num(180)
    /\ status.kind = "ok"

\* C3: a computation issues exactly one elevation request, which carries all
\* nine points, and never a second one, in both applications.
C3_OneBatchedRequest ==
    /\ Len(elevReqs) <= 1
    /\ \A i \in 1..Len(elevReqs) : Len(elevReqs[i]) = 9
    /\ Len(mapReqs) <= 1
    /\ \A i \in 1..Len(mapReqs) : mapReqs[i] = 9

\* the response body does not match the request, or has no site elevation
BadBody(d) ==
    \/ ~d.isArray
    \/ Len(d.elevation) # 9
    \/ ~isFinite(d.elevation[1])

\* C4: when the elevation response has not nine entries, or its first entry
\* (the site elevation) is unavailable, the run fails: no factor, Ac, Am or
\* sample row is displayed and the status shows the error.
C4_BadResponseFails ==
    (lastData # <<>> /\ BadBody(lastData[1])) =>
        /\ NoFormOutput
        /\ ~warningShown
        /\ status.kind = "error"
        /\ pc = "idle"

\* a response of nine entries whose first is null was handled
C4_Witness ==
    /\ lastData # <<>>
    /\ lastData[1].isArray
    /\ Len(lastData[1].elevation) = 9
    /\ lastData[1].elevation[1] = null
    /\ \A i \in 2..9 : isFinite(lastData[1].elevation[i])
    /\ status = [kind |-> "error", msg |-> "Could not determine site elevation."]

\* the origin applied last in the map application
LatestOrigin == <<[lat |-> mapCoords.lat, lon |-> mapCoords.lon]>>

\* C5: when a ring elevation is unavailable the computation fails and shows
\* no result computed from the other values: in the form application the
\* outputs stay empty and the status shows the error; in the map application
\* no factor is written from elevations of an origin one of whose ring
\* elevations is unavailable.
C5_MissingRingFails ==
    /\ (/\ lastData # <<>>
        /\ lastData[1].isArray
        /\ Len(lastData[1].elevation) = 9
        /\ \E i \in 2..9 : ~isFinite(lastData[1].elevation[i])) =>
            (NoFormOutput /\ status.kind = "error")
    /\ (/\ mapCoords # Dash
        /\ \E i \in 2..9 : /\ slotOrigin[i] = LatestOrigin
                           /\ slotText[i].k \in {"null", "na"}) =>
            (lastCalc = <<>> \/ LatestOrigin \notin lastCalc[1].origins)

\* C6: Am = (2*Ac + ring sum) / 10, and for a reference height of at most
\* 10 m the factor is exactly max(1.0, 1 + 0.004*(Ac - Am)), in both
\* applications; Ac = 200 with a ring sum of 800 gives Am = 120 and 1.32.
C6_ExactInBothPaths ==
    /\ returned # <<>> =>
          /\ returned[1].Am10 = 2 * returned[1].Ac + RingSum(returned[1].elevations)
          /\ toNumber(zInput[1]).v <= 10 =>
                returned[1].c0 = Max(100000000, Unattenuated(returned[1].elevations))
    /\ lastCalc # <<>> =>
          (~Gt(lastCalc[1].towerHeight, 10) =>
              mapFactor.v * 1000000 = Max(100000000, Unattenuated(lastCalc[1].elevations)))

\* C7: when all nine elevations are equal, Am equals Ac and the factor is
\* exactly 1.0 whatever the reference height, with the flat advisory: no
\* warning in the form application, the "flat" comment in the map application.
C7_FlatTerrain ==
    /\ (returned # <<>> /\ AllEqual(returned[1].elevations)) =>
          /\ returned[1].Am10 = 10 * returned[1].Ac
          /\ returned[1].c0 = 100000000
          /\ factorText = Shown(1000)
          /\ AmText = AcText
          /\ ~warningShown
    /\ (lastCalc # <<>> /\ AllEqual(lastCalc[1].elevations)) =>
          /\ mapFactor = Shown(100)
          /\ mapComment = "flat"

\* flat ground at 200 m with a reference height of 50 m, form application
C7_Witness ==
    /\ returned # <<>>
    /\ AllEqual(returned[1].elevations)
    /\ returned[1].Ac = 200
    /\ zInput = <<NumText(50)>>
    /\ factorText = Shown(1000)

\* the three-way classification of a factor f given in units 1/unit (a
\* multiple of 20): 1.15 is 23/20
Advisory(f, unit) ==
    IF f <= unit THEN "FLAT"
    ELSE IF f <= 23 * (unit \div 20) THEN "TRANSITIONAL"
    ELSE "STEEP"

\* the advisory the map application's comment stands for
CommentAdvisory ==
    CASE mapComment = "flat" -> "FLAT"
      [] mapComment = "not flat" -> "TRANSITIONAL"
      [] mapComment = "not flat, detailed analysis" -> "STEEP"
      [] OTHER -> "NONE"

\* C8: the advisory is a total three-way classification of the factor: at
\* most 1.0 flat, above 1.0 and at most 1.15 transitional, above 1.15 steep.
\* The form application shows its warning exactly when the factor returned
\* is above 1.15; the map application's comment is the class of the factor
\* it writes.
C8_AdvisoryClassification ==
    /\ returned # <<>> =>
          (warningShown <=> Advisory(returned[1].c0, 100000000) = "STEEP")
    /\ returned = <<>> => ~warningShown
    /\ mapFactor.k = "text" => CommentAdvisory = Advisory(mapFactor.v, 100)
    /\ mapFactor.k # "text" => mapComment = ""

\* a transitional factor is displayed in the map application
C8_Witness ==
    /\ mapFactor.k = "text"
    /\ mapFactor.v > 100
    /\ mapFactor.v <= 115
    /\ mapComment = "not flat"

\* C9: the factor is floored, then rounded for display, and the advisory is
\* the class of the rounded value: the advisory shown always agrees with the
\* factor displayed.
C9_AdvisoryAgreesWithDisplayed ==
    /\ factorText.k = "text" =>
          (warningShown <=> Advisory(factorText.v, 1000) = "STEEP")
    /\ mapFactor.k = "text" => Advisory(mapFactor.v, 100) = CommentAdvisory

\* the reference height read by the last submit is negative
NegativeInput == zInput # <<>> /\ Lt(toNumber(zInput[1]), 0)

\* C10 (as the code has it): the form application rejects a run whose
\* reference height is negative before any geocoding or elevation request is
\* issued, displays nothing and shows the error; the map application does not
\* reject a negative height: it writes the factor of a height of at most 10 m.
C10_NegativeHeight ==
    /\ NegativeInput =>
          /\ geoReqs = 0
          /\ elevReqs = <<>>
          /\ pc = "idle"
          /\ NoFormOutput
          /\ coords = Dash
          /\ status = [kind |-> "error",
                       msg |-> "Reference height z must be a non-negative number."]
    /\ (lastCalc # <<>> /\ Lt(lastCalc[1].towerHeight, 0)) =>
          /\ mapFactor.k = "text"
          /\ RoundedUpTo(mapFactor.v, Unattenuated(lastCalc[1].elevations))

\* a submit by address with a height of -5 was rejected
C10_Witness ==
    /\ NegativeInput
    /\ inputType = "address"
    /\ status.kind = "error"
    /\ geoReqs = 0

\* C10 (as stated): a run whose reference height is negative is rejected
\* before any request is issued and no factor is displayed, in both
\* applications.
C10_NegativeHeightRejected ==
    /\ NegativeInput => (geoReqs = 0 /\ elevReqs = <<>> /\ NoFormOutput)
    /\ (app = "map" /\ Lt(height, 0)) => mapFactor = Dash

\* the origin of the computation is a valid geographic point
ValidOrigin(p) == InRange(p.lat, p.lon)

\* C11: in Lambert mode, when the planar input resolves to a point outside
\* [-180,180] x [-90,90] or to a longitude or latitude that is not finite,
\* the computation fails with the invalid-coordinate error and no elevation
\* request is issued for that point: form application (the conversion of the
\* last submit) and map application (the origin applied last).
C11_LambertOutOfRange ==
    /\ (lambertIn # <<>> /\ ~ValidOrigin(lambertIn[1])) =>
          /\ elevReqs = <<>>
          /\ NoFormOutput
          /\ status.kind = "error"
    /\ (mapCoords # Dash /\ ~ValidOrigin(mapCoords)) =>
          /\ mapReqs = <<>>
          /\ \A i \in 1..Len(inflight) :
                ~(inflight[i].lat = mapCoords.lat /\ inflight[i].lon = mapCoords.lon)

\* C12: with the CRS selector on "auto", a northing strictly above 2,000,000
\* selects EPSG:31370 and every other northing, 2,000,000 included, selects
\* EPSG:3812; a system selected explicitly is the one used for the
\* conversion whatever the northing.  The system used is the one the
\* conversion was called with and the one named in the coordinate label.
C12_LambertCrsChoice ==
    lambertIn # <<>> =>
        LET c == lambertIn[1]
            expected == IF c.crsSel = "auto"
                        THEN (IF c.northing.v > 2000000 THEN "EPSG:31370" ELSE "EPSG:3812")
                        ELSE c.crsSel
        IN  /\ c.crs = expected
            /\ coords # Dash => coords.label = expected

\* a northing of exactly 2,000,000 on "auto" was converted as EPSG:3812
C12_Witness ==
    /\ lambertIn # <<>>
    /\ lambertIn[1].crsSel = "auto"
    /\ lambertIn[1].northing = Num(2000000)
    /\ coords # Dash
    /\ coords.label = "EPSG:3812"

\* C13: destinationPoint with a distance of 0 returns the origin, for every
\* valid origin (latitude -90 and 90, longitude -180 and 180 included) and
\* every bearing: the latitude and longitude returned are those given.
C13_ZeroDistanceFixedPoint ==
    (geoOut # <<>> /\ geoIn.distanceM = 0) =>
        /\ geoOut[1].lat = Num(geoIn.lat)
        /\ geoOut[1].lon = Num(geoIn.lon)

\* C14: for every origin longitude in [-180,180], every distance and every
\* bearing, the longitude destinationPoint returns lies in [-180,180] and
\* differs from the longitude before normalisation (the origin's longitude
\* plus the offset computed, itself within half a turn) by a multiple of 360.
C14_LongitudeNormalized ==
    geoOut # <<>> =>
        /\ isFinite(geoOut[1].lon)
        /\ geoOut[1].lon.v >= -180
        /\ geoOut[1].lon.v <= 180
        /\ (geoOut[1].lon.v - geoOut[1].lambda2) % 360 = 0
        /\ geoOut[1].lambda2 - geoIn.lon >= -180
        /\ geoOut[1].lambda2 - geoIn.lon <= 180

\* from longitude 180 on the equator, a quarter turn east: 270 before
\* normalisation, -90 returned
C14_Witness ==
    /\ geoOut # <<>>
    /\ geoIn.lat = 0
    /\ geoIn.lon = 180
    /\ geoIn.bearingDeg = 90
    /\ geoOut[1].lambda2 = 270
    /\ geoOut[1].lon = Num(-90)

\* C15: every factor displayed is computed from nine elevations of one and
\* the same origin, the one requested last: in the form application from the
\* one response to the request of the run, in the map application from nine
\* spans all written by responses for the origin applied last.
C15_SameOriginElevations ==
    /\ returned # <<>> =>
          /\ elevReqs = <<returned[1].points>>
          /\ lastData # <<>>
          /\ returned[1].elevations = lastData[1].elevation
    /\ lastCalc # <<>> => lastCalc[1].origins = {<<lastCalc[1].latest>>}

\* while a run is in flight: the controls are disabled, the run holds the
\* reference height read at its start and has issued at most one request of
\* each kind
InFlightState ==
    /\ loading <=> pc # "idle"
    /\ loading =>
          /\ zInput # <<>>
          /\ cur.zRef = toNumber(zInput[1])
          /\ geoReqs <= 1
          /\ Len(elevReqs) <= 1

\* a step taken while a run is in flight: no submit reads inputs again, no
\* input changes, and a result written is the result of that run
InFlightStep ==
    loading =>
        /\ zInput' = zInput
        /\ lambertIn' = lambertIn
        /\ inputType' = inputType
        /\ loading' => cur'.zRef = cur.zRef
        /\ returned' # <<>> =>
              /\ pc = "fetching"
              /\ returned'[1].points = cur.points
              /\ elevReqs' = <<cur.points>>
              /\ returned'[1].points[1].lon = cur.lon
              /\ returned'[1].points[1].lat = cur.lat

\* C16: in the form application at most one computation is in flight: from
\* the submit that starts a run until the run has succeeded or failed the run
\* button and the inputs are disabled, no second run starts, and the outputs
\* written at the end belong to the inputs read at the start.
C16_OneRunInFlight == []InFlightState /\ [][InFlightStep]_vars

\* a run waits for the geocoding response with the controls disabled
C16_Witness ==
    /\ loading
    /\ pc = "geocoding"
    /\ geoReqs = 1
    /\ zInput # <<>>

\* the run succeeded: "Done." with the factor, Ac, Am and nine rows displayed
RunDone ==
    /\ status = [kind |-> "ok", msg |-> "Done."]
    /\ factorText.k = "text"
    /\ AcText.k = "text"
    /\ AmText.k = "text"
    /\ Len(samples) = 9

\* the run failed: an error status, the factor, Ac and Am left cleared
RunFailed ==
    /\ status.kind = "error"
    /\ factorText = Dash
    /\ AcText = Dash
    /\ AmText = Dash

\* the run is over with exactly one outcome and the controls are enabled
RunEnded ==
    /\ ~loading
    /\ pc = "idle"
    /\ RunDone \/ RunFailed
    /\ ~(RunDone /\ RunFailed)

\* C17: provided every request eventually settles, every submitted run
\* eventually ends in exactly one of two outcomes, "Done." with the factor,
\* Ac, Am and nine sample rows displayed, or an error status with the factor,
\* Ac and Am left cleared; in both the controls are enabled again.
C17_RunEventuallyEnds ==
    /\ [](app = "form" /\ zInput # <<>> /\ ~loading => RunEnded)
    /\ (loading ~> RunEnded)

\* a run that waited for the elevation response has ended with "Done."
C17_Witness ==
    /\ zInput # <<>>
    /\ ~loading
    /\ RunDone
    /\ returned # <<>>
    /\ warningShown

====
